---- MODULE Spec2Model ----
(***************************************************************************)
(* Shopping-cart backend (assignment1/backend/main.py): the SQLite tables, *)
(* the process-wide product cache and the request handlers, one action per *)
(* handler.  Money is counted in cents; exact intermediate values of the   *)
(* totals are counted in hundredths of a cent.  The second part is the     *)
(* content-generation backend (assignment2/app): its provider and task     *)
(* tables, the provider handlers, the generation handlers and the task     *)
(* runner.                                                                 *)
(***************************************************************************)
EXTENDS Integers, FiniteSets, Sequences, TLC

VARIABLES cart_sessions, cart_items, next_item_id, discount_codes,
          product_service_config, product_cache, resp, in_flight,
          ai_providers, generation_tasks, runs, batches

\* The content-generation backend (assignment2) is another process with its
\* own database: its tables and coroutines.
ai_vars == <<ai_providers, generation_tasks, runs, batches>>

\* The tables, cache and suspended requests of the cart backend.
cart_vars == <<cart_sessions, cart_items, next_item_id, discount_codes,
               product_service_config, product_cache, in_flight>>

vars == <<cart_sessions, cart_items, next_item_id, discount_codes,
          product_service_config, product_cache, resp, in_flight,
          ai_providers, generation_tasks, runs, batches>>

\* The content-generation backend with empty tables and nothing running.
ContentServiceIdle ==
    /\ ai_providers = {}
    /\ generation_tasks = << >>
    /\ runs = << >>
    /\ batches = << >>

(***************************************************************************)
(* Bounds of the model.                                                    *)
(***************************************************************************)
\* Largest AUTOINCREMENT id the model lets cart_items hand out.
MaxItemId == 2
\* Largest quantity a request asks for.
MaxQty == 2
\* Largest stock the upstream product service reports.
MaxStock == 2
\* Most rows the model lets product_service_config hold.
MaxConfigs == 3

(***************************************************************************)
(* Request inputs.                                                         *)
(***************************************************************************)
ProductIds == {"p1", "p2"}
\* session_id omitted, or empty: both take the `if not session_id` branch.
NoSession == ""
\* Session ids a client makes up itself, and the tokens secrets.token_urlsafe
\* may hand out.
ClientSessionIds == {"sA"}
Tokens == {"t1", "t2"}
\* Quantities a PUT asks for: below 1 (which it refuses), 1, and the largest.
Quantities == {0 - 1, 0, 1, MaxQty}
\* Quantities a POST asks for: the ones a shop front sends, and the ones
\* below 1, which CartItem.quantity (a plain int) lets through as well.
AddQuantities == {1, MaxQty}
InvalidAddQuantities == {0 - 1, 0}
\* Item ids a request names: every id the table can hand out.  An id names no
\* row while it is not handed out yet, after its row is deleted, and for a
\* session other than the row's.
ItemIdArgs == 1 .. MaxItemId
NoCode == ""

(***************************************************************************)
(* The external product service.  A response body is a JSON object, here a *)
(* record; EmptyJson is a body that is valid JSON but falsy in Python ({}).*)
(***************************************************************************)
\* The catalogue the model's upstream serves: p1 is scarce or well stocked,
\* p2 is always well stocked but its body may come back empty.
StocksOf == [p \in ProductIds |-> IF p = "p1" THEN {1, MaxStock} ELSE {MaxStock}]
PriceOf == [p \in ProductIds |-> IF p = "p1" THEN 400 * 100 ELSE 800 * 100]
VendorOf == [p \in ProductIds |-> IF p = "p1" THEN "v1" ELSE "v2"]
VendorNameOf == [p \in ProductIds |-> IF p = "p1" THEN "A" ELSE "B"]
NameOf == [p \in ProductIds |-> IF p = "p1" THEN "n1" ELSE "n2"]
EmptyJson == [e \in {} |-> 0]

Snapshots(pid) ==
    { [id |-> pid, name |-> NameOf[pid], price |-> PriceOf[pid], stock |-> st,
       vendor_id |-> VendorOf[pid], vendor_name |-> VendorNameOf[pid],
       image_url |-> "img"] : st \in StocksOf[pid] }

\* What a 2xx response with a parsable body may carry for product pid.
UpstreamBodies(pid) ==
    Snapshots(pid) \cup (IF pid = "p2" THEN {EmptyJson} ELSE {})

\* dict.get(key, default)
Get(d, key, default) == IF key \in DOMAIN d THEN d[key] ELSE default

\* Python truthiness of an Optional[dict] held as a set with at most one element.
Truthy(data) == \E d \in data : DOMAIN d # {}

(***************************************************************************)
(* init_db: the schema and the rows it inserts.                            *)
(***************************************************************************)
CartItemsColumns ==
    {"id", "session_id", "product_id", "product_name", "price", "quantity",
     "vendor_id", "vendor_name", "image_url"}

InitDiscountCodes ==
    { [code |-> "SAVE10", percentage |-> 10, is_active |-> TRUE],
      [code |-> "SAVE20", percentage |-> 20, is_active |-> TRUE],
      [code |-> "SAVE15", percentage |-> 15, is_active |-> TRUE] }

InitConfig ==
    << [endpoint |-> "https://api.example.com/products", api_key |-> "",
        is_active |-> TRUE] >>

Idle == [op |-> "none", status |-> 0, detail |-> ""]

Init ==
    /\ cart_sessions = {}
    /\ cart_items = {}
    /\ next_item_id = 1
    /\ discount_codes = InitDiscountCodes
    /\ product_service_config = InitConfig
    /\ product_cache = [k \in {} |-> EmptyJson]
    /\ resp = Idle
    /\ in_flight = << >>
    /\ ContentServiceIdle

(***************************************************************************)
(* get_or_create_session_id: <<session id, cart_sessions afterwards>>.     *)
(* SELECT ... LIMIT 1 has no ORDER BY: any stored row may be the one read. *)
(***************************************************************************)
\* The function without its SELECT: a new session at every call.
CreateSessionAlways == { <<t, cart_sessions \cup {t}>> : t \in Tokens }

GetOrCreateSessionId ==
    IF cart_sessions # {}
    THEN { <<s, cart_sessions>> : s \in cart_sessions }
    ELSE { <<t, cart_sessions \cup {t}>> : t \in Tokens }

\* What a request carries as session_id: nothing, or an id the client made
\* up.  (A client that sends back the token it was given reaches the same
\* session as one that sends nothing: get_or_create_session_id returns it.)
SessionArgs == {NoSession} \cup ClientSessionIds

\* The session of a request, with a client's id stored as a session too.
ResolveSessionStoring(session_id) ==
    IF session_id = NoSession THEN GetOrCreateSessionId
    ELSE { <<session_id, cart_sessions \cup {session_id}>> }

\* `if not session_id: session_id = get_or_create_session_id()`
ResolveSession(session_id) ==
    IF session_id = NoSession THEN GetOrCreateSessionId
    ELSE { <<session_id, cart_sessions>> }

(***************************************************************************)
(* fetch_product_from_external_api: the set of <<product_data, cache       *)
(* afterwards, endpoints asked>> it may end with.  product_data is {} for  *)
(* None, and the endpoints asked are {} when no request went out.  A       *)
(* cached entry is served unless its TTL has run out, which the cache      *)
(* finds out at this lookup; then, and on a miss, the upstream is asked.   *)
(***************************************************************************)
\* The lookup with entries that never expire.
CacheUntouched(pid) == product_cache

CacheWithout(pid) ==
    [k \in (DOMAIN product_cache) \ {pid} |-> product_cache[k]]

CachePut(cache, pid, body) ==
    [k \in (DOMAIN cache) \cup {pid} |-> IF k = pid THEN body ELSE cache[k]]

ActiveConfig ==
    LET rows == { i \in DOMAIN product_service_config :
                    product_service_config[i].is_active }
    IN IF rows = {} THEN {}
       ELSE { product_service_config[CHOOSE i \in rows : \A j \in rows : i <= j] }

FetchFromUpstream(cache, pid) ==
    IF ActiveConfig = {} \/ (\E c \in ActiveConfig : c.endpoint = "")
    THEN { <<{}, cache, {}>> }
    ELSE LET asked == { c.endpoint : c \in ActiveConfig } IN
         \* transport error, timeout, non-2xx, unparsable body
         { <<{}, cache, asked>> }
         \cup { <<{b}, CachePut(cache, pid, b), asked>> : b \in UpstreamBodies(pid) }

FetchProduct(pid) ==
    (IF pid \in DOMAIN product_cache
     THEN { <<{product_cache[pid]}, product_cache, {}>> }
     ELSE {})
    \cup FetchFromUpstream(CacheWithout(pid), pid)

(***************************************************************************)
(* SQL statements on cart_items.                                           *)
(***************************************************************************)
\* The UPDATE on a table that has every column it names.
UpdateNeverRaises(setColumns) == FALSE

\* sqlite3.OperationalError "no such column": an UPDATE naming a column the
\* table does not have fails when it is prepared, and writes nothing.
UpdateRaises(setColumns) == ~(setColumns \subseteq CartItemsColumns)

\* The lookup with its two parameters bound the wrong way round.
FindLineItemsSwapped(sid, pid) ==
    { it \in cart_items : it.session_id = pid /\ it.product_id = sid }

\* SELECT id FROM cart_items WHERE session_id = ? AND product_id = ?
FindLineItems(sid, pid) ==
    { it \in cart_items : it.session_id = sid /\ it.product_id = pid }

\* The lookup without its session condition.
FindByIdAnySession(item_id, sid) == { it \in cart_items : it.id = item_id }

\* SELECT ... FROM cart_items WHERE id = ? AND session_id = ?
FindById(item_id, sid) ==
    { it \in cart_items : it.id = item_id /\ it.session_id = sid }

\* INSERT INTO cart_items (...) VALUES (...): the snapshot's fields as
\* product_data.get reads them (every body of the model that gets this far
\* carries them all).
NewLineItem(sid, pid, d, quantity) ==
    [id |-> next_item_id, session_id |-> sid, product_id |-> pid,
     product_name |-> Get(d, "name", ""), price |-> Get(d, "price", 0),
     quantity |-> quantity, vendor_id |-> Get(d, "vendor_id", ""),
     vendor_name |-> Get(d, "vendor_name", ""),
     image_url |-> Get(d, "image_url", "")]

\* UPDATE cart_items SET quantity = quantity + ?, updated_at = ... WHERE id = ?
IncrementQuantity(item_id, delta) ==
    { IF it.id = item_id THEN [it EXCEPT !.quantity = @ + delta] ELSE it :
        it \in cart_items }

\* UPDATE cart_items SET quantity = ?, updated_at = ... WHERE id = ?
SetQuantity(item_id, quantity) ==
    { IF it.id = item_id THEN [it EXCEPT !.quantity = quantity] ELSE it :
        it \in cart_items }

\* The DELETE without its WHERE clause.
DeleteEveryRow(item_id) == {}

\* DELETE FROM cart_items WHERE id = ?
DeleteById(item_id) == { it \in cart_items : it.id # item_id }

\* The DELETE of a whole cart without its WHERE clause.
DeleteEverySession(sid) == {}

\* DELETE FROM cart_items WHERE session_id = ?
DeleteBySession(sid) == { it \in cart_items : it.session_id # sid }

\* The stock check off by one.
InsufficientStockOffByOne(d, quantity) == Get(d, "stock", 0) + 1 < quantity

\* `product_data.get('stock', 0) < quantity`
InsufficientStock(d, quantity) == Get(d, "stock", 0) < quantity

\* The quantity check letting 0 through.
InvalidQuantityBelowZero(quantity) == quantity < 0

\* `if quantity < 1`
InvalidQuantity(quantity) == quantity < 1

(***************************************************************************)
(* POST /api/v1/cart/items                                                 *)
(***************************************************************************)
\* The HTTP response: an HTTPException's status and detail, 500 for an
\* exception no handler catches, or 200 with the handler's message.
Response(op, status, detail) == [op |-> op, status |-> status, detail |-> detail]

\* add_to_cart also returns the session id it used.
AddOk(sid) ==
    [op |-> "add", status |-> 200, detail |-> "Item added to cart",
     session_id |-> sid]

\* add_to_cart from the product lookup's return on: the check of the product
\* and its stock, the search for the pair's line item and the write.  Nothing
\* in it is awaited, so it runs in one piece.
AddAfterFetch(sid, pid, quantity, data, existing) ==
    IF ~Truthy(data)
    THEN /\ resp' = Response("add", 404, "Product not found")
         /\ UNCHANGED <<cart_items, next_item_id>>
    ELSE LET d == CHOOSE x \in data : TRUE IN
         IF InsufficientStock(d, quantity)
         THEN /\ resp' = Response("add", 400, "Insufficient stock")
              /\ UNCHANGED <<cart_items, next_item_id>>
         ELSE IF existing # {}
         THEN IF UpdateRaises({"quantity", "updated_at"})
              THEN /\ resp' = Response("add", 500, "OperationalError")
                   /\ UNCHANGED <<cart_items, next_item_id>>
              ELSE /\ \E e \in existing :
                         cart_items' = IncrementQuantity(e.id, quantity)
                   /\ resp' = AddOk(sid)
                   /\ UNCHANGED next_item_id
         ELSE /\ next_item_id <= MaxItemId
              /\ cart_items' = cart_items \cup {NewLineItem(sid, pid, d, quantity)}
              /\ next_item_id' = next_item_id + 1
              /\ resp' = AddOk(sid)

\* The whole request when no other request runs while it waits for the
\* product service.
AddToCart(session_id, pid, quantity) ==
    \E so \in ResolveSession(session_id) :
    \E fo \in FetchProduct(pid) :
        /\ cart_sessions' = so[2]
        /\ product_cache' = fo[2]
        /\ UNCHANGED <<discount_codes, product_service_config, in_flight, ai_vars>>
        /\ AddAfterFetch(so[1], pid, quantity, fo[1], FindLineItems(so[1], pid))

(***************************************************************************)
(* calculate_totals                                                        *)
(***************************************************************************)
\* SUM(price * quantity) over a set of rows, in cents.
RECURSIVE SumItems(_)
SumItems(items) ==
    IF items = {} THEN 0
    ELSE LET it == CHOOSE x \in items : TRUE
         IN it.price * it.quantity + SumItems(items \ {it})

\* round(x, 2) of a float whose exact value is x100 hundredths of a cent: the
\* nearest cent.  Halfway between two cents the binary float lies a little
\* above or below, so either neighbour may come out.
Round2(x100) ==
    LET q == x100 \div 100
        r == x100 % 100
    IN IF r < 50 THEN {q} ELSE IF r > 50 THEN {q + 1} ELSE {q, q + 1}

\* `if vendor['vendor_subtotal'] < 800: shipping += 100`, in cents.
ShippingFee == 100 * 100
FreeShippingThreshold == 800 * 100

SessionItems(sid) == { it \in cart_items : it.session_id = sid }

\* GROUP BY vendor_id, vendor_name
VendorGroups(sid) ==
    { <<it.vendor_id, it.vendor_name>> : it \in SessionItems(sid) }

VendorSubtotal(sid, g) ==
    SumItems({ it \in SessionItems(sid) :
                 it.vendor_id = g[1] /\ it.vendor_name = g[2] })

ChargedGroups(sid) ==
    { g \in VendorGroups(sid) : VendorSubtotal(sid, g) < FreeShippingThreshold }

Shipping(sid) == ShippingFee * Cardinality(ChargedGroups(sid))

\* The lookup without `AND is_active = 1`.
AnyCode(code) == { r \in discount_codes : r.code = code }

\* SELECT percentage FROM discount_codes WHERE code = ? AND is_active = 1
ActiveCode(code) == { r \in discount_codes : r.code = code /\ r.is_active }

\* subtotal * (percentage / 100), in hundredths of a cent.
Discount100(sid, code) ==
    IF code # NoCode /\ ActiveCode(code) # {}
    THEN SumItems(SessionItems(sid)) * (CHOOSE r \in ActiveCode(code) : TRUE).percentage
    ELSE 0

\* The total with the discount added instead of subtracted.
TotalPlusDiscount100(sid, code) ==
    SumItems(SessionItems(sid)) * 100 + Discount100(sid, code) + Shipping(sid) * 100

Total100(sid, code) ==
    SumItems(SessionItems(sid)) * 100 - Discount100(sid, code) + Shipping(sid) * 100

CalculateTotals(sid, code) ==
    { [subtotal |-> SumItems(SessionItems(sid)), discount |-> d,
       shipping |-> Shipping(sid), total |-> t] :
        d \in Round2(Discount100(sid, code)), t \in Round2(Total100(sid, code)) }

(***************************************************************************)
(* GET /api/v1/cart                                                        *)
(***************************************************************************)
\* ORDER BY id DESC
RECURSIVE ById(_)
ById(items) ==
    IF items = {} THEN << >>
    ELSE LET top == CHOOSE x \in items : \A y \in items : y.id <= x.id
         IN << top >> \o ById(items \ {top})

GetCart(session_id) ==
    \E so \in ResolveSession(session_id) :
    \E totals \in CalculateTotals(so[1], NoCode) :
        /\ cart_sessions' = so[2]
        /\ resp' = [op |-> "get", status |-> 200, detail |-> "",
                    session_id |-> so[1], items |-> ById(SessionItems(so[1])),
                    totals |-> totals]
        /\ UNCHANGED <<cart_items, next_item_id, discount_codes,
                       product_service_config, product_cache,
                       in_flight, ai_vars>>

(***************************************************************************)
(* PUT /api/v1/cart/items/{item_id}                                        *)
(***************************************************************************)
UpdateItemQuantity(session_id, item_id, quantity) ==
    \E so \in ResolveSession(session_id) :
        LET sid == so[1]
            item == FindById(item_id, sid)
        IN
        /\ cart_sessions' = so[2]
        /\ UNCHANGED <<next_item_id, discount_codes, product_service_config,
                       in_flight, ai_vars>>
        /\ IF InvalidQuantity(quantity)
           THEN /\ resp' = Response("update", 400, "Quantity must be at least 1")
                /\ UNCHANGED <<cart_items, product_cache>>
           ELSE IF item = {}
           THEN /\ resp' = Response("update", 404, "Item not found")
                /\ UNCHANGED <<cart_items, product_cache>>
           ELSE \E it \in item : \E fo \in FetchProduct(it.product_id) :
                /\ product_cache' = fo[2]
                /\ IF Truthy(fo[1]) /\
                      (\E d \in fo[1] : InsufficientStock(d, quantity))
                   THEN /\ resp' = Response("update", 400, "Insufficient stock")
                        /\ UNCHANGED cart_items
                   ELSE IF UpdateRaises({"quantity", "updated_at"})
                   THEN /\ resp' = Response("update", 500, "OperationalError")
                        /\ UNCHANGED cart_items
                   ELSE /\ cart_items' = SetQuantity(item_id, quantity)
                        /\ resp' = Response("update", 200, "Quantity updated")

(***************************************************************************)
(* DELETE /api/v1/cart/items/{item_id}                                     *)
(***************************************************************************)
RemoveItem(session_id, item_id) ==
    \E so \in ResolveSession(session_id) :
        /\ cart_sessions' = so[2]
        /\ UNCHANGED <<next_item_id, discount_codes, product_service_config,
                       product_cache,
                       in_flight, ai_vars>>
        /\ IF FindById(item_id, so[1]) = {}
           THEN /\ resp' = Response("remove", 404, "Item not found")
                /\ UNCHANGED cart_items
           ELSE \* DELETE FROM cart_items WHERE id = ?
                /\ cart_items' = DeleteById(item_id)
                /\ resp' = Response("remove", 200, "Item removed")

(***************************************************************************)
(* DELETE /api/v1/cart                                                     *)
(***************************************************************************)
ClearCart(session_id) ==
    \E so \in ResolveSession(session_id) :
        /\ cart_sessions' = so[2]
        \* DELETE FROM cart_items WHERE session_id = ?
        /\ cart_items' = DeleteBySession(so[1])
        /\ resp' = Response("clear", 200, "Cart cleared")
        /\ UNCHANGED <<next_item_id, discount_codes, product_service_config,
                       product_cache,
                       in_flight, ai_vars>>

Next ==
    \/ \E s \in SessionArgs, p \in ProductIds, q \in AddQuantities : AddToCart(s, p, q)
    \/ \E s \in SessionArgs : GetCart(s)
    \/ \E s \in SessionArgs, i \in ItemIdArgs, q \in Quantities :
          UpdateItemQuantity(s, i, q)
    \/ \E s \in SessionArgs, i \in ItemIdArgs : RemoveItem(s, i)
    \/ \E s \in SessionArgs : ClearCart(s)

Spec == Init /\ [][Next]_vars

(***************************************************************************)
(* The same handlers, POST /api/v1/cart/items also with quantities below 1.*)
(***************************************************************************)
AddAnyQuantity ==
    \E s \in SessionArgs, p \in ProductIds, q \in InvalidAddQuantities :
        AddToCart(s, p, q)

NextAnyQuantity == Next \/ AddAnyQuantity

SpecAnyQuantity == Init /\ [][NextAnyQuantity]_vars

(***************************************************************************)
(* calculate_totals on its own: the tables are drawn from the carts the    *)
(* handlers can build (one row per product of session sA, each snapshot    *)
(* field as some upstream served it) and the call is made with any code.   *)
(* The is_active flag of a code is only ever cleared by hand, in the       *)
(* database.                                                               *)
(***************************************************************************)
TotalsPrices == {5, 400 * 100, 79999, 800 * 100}
TotalsCodes == {NoCode, "SAVE10", "SAVE15", "BOGUS"}
TotalsSessions == {"sA", "t1"}

TotalsRows(id, pid, vendors, names) ==
    { [id |-> id, session_id |-> "sA", product_id |-> pid,
       product_name |-> NameOf[pid], price |-> pr, quantity |-> q,
       vendor_id |-> v, vendor_name |-> n, image_url |-> "img"] :
        pr \in TotalsPrices, q \in 1 .. MaxQty, v \in vendors, n \in names }

TotalsCarts ==
    { a \cup b : a \in {{}} \cup { {r} : r \in TotalsRows(1, "p1", {"v1"}, {"A"}) },
                 b \in {{}} \cup { {r} : r \in TotalsRows(2, "p2", {"v1", "v2"}, {"A", "B"}) } }

TotalsDiscountCodes ==
    { InitDiscountCodes,
      { [r EXCEPT !.is_active = (r.code # "SAVE15")] : r \in InitDiscountCodes } }

InitTotals ==
    /\ cart_sessions = {}
    /\ cart_items \in TotalsCarts
    /\ next_item_id = 3
    /\ discount_codes \in TotalsDiscountCodes
    /\ product_service_config = InitConfig
    /\ product_cache = [k \in {} |-> EmptyJson]
    /\ resp = Idle
    /\ in_flight = << >>
    /\ ContentServiceIdle

ComputeTotals(sid, code) ==
    \E t \in CalculateTotals(sid, code) :
        /\ resp' = [op |-> "totals", status |-> 200, detail |-> "",
                    session_id |-> sid, code |-> code, totals |-> t]
        /\ UNCHANGED <<cart_sessions, cart_items, next_item_id, discount_codes,
                       product_service_config, product_cache,
                       in_flight, ai_vars>>

NextTotals == \E sid \in TotalsSessions, code \in TotalsCodes : ComputeTotals(sid, code)

SpecTotals == InitTotals /\ [][NextTotals]_vars

(***************************************************************************)
(* POST and DELETE /api/v1/cart/discount, and GET /api/v1/cart, on the     *)
(* tables above.                                                           *)
(***************************************************************************)
\* request.code: a stored code as stored, one in other letters, one that may
\* be inactive, one that is not stored.
DiscountCodeArgs == {"SAVE10", "save10", "SAVE15", "BOGUS"}

\* The confirmation with the total in place of the discount.
DiscountAmountTotal(totals) == totals.total

\* "discount_amount": totals['discount']
DiscountAmount(totals) == totals.discount

ApplyDiscountCode(session_id, code) ==
    \E so \in ResolveSession(session_id) :
        /\ cart_sessions' = so[2]
        /\ UNCHANGED <<cart_items, next_item_id, discount_codes,
                       product_service_config, product_cache,
                       in_flight, ai_vars>>
        /\ IF ActiveCode(code) = {}
           THEN resp' = Response("apply_discount", 404, "Invalid discount code")
           ELSE \E totals \in CalculateTotals(so[1], code) :
                  resp' = [op |-> "apply_discount", status |-> 200,
                           detail |-> "Discount code applied", code |-> code,
                           discount_amount |-> DiscountAmount(totals)]

RemoveDiscountCode(session_id) ==
    \E so \in ResolveSession(session_id) :
    \E totals \in CalculateTotals(so[1], NoCode) :
        /\ cart_sessions' = so[2]
        /\ resp' = [op |-> "remove_discount", status |-> 200,
                    detail |-> "Discount code removed", discount_amount |-> 0]
        /\ UNCHANGED <<cart_items, next_item_id, discount_codes,
                       product_service_config, product_cache,
                       in_flight, ai_vars>>

\* GET /api/v1/cart?session_id=...&discount_code=...: get_cart declares no
\* such parameter, and a query parameter a handler does not declare is
\* dropped before the handler is called.
GetCartWithCode(session_id, code) == GetCart(session_id)

NextDiscount ==
    \/ \E s \in SessionArgs, c \in DiscountCodeArgs : ApplyDiscountCode(s, c)
    \/ \E s \in SessionArgs : RemoveDiscountCode(s)
    \/ \E s \in SessionArgs, c \in DiscountCodeArgs \cup {NoCode} :
          GetCartWithCode(s, c)

SpecDiscount == InitTotals /\ [][NextDiscount]_vars

(***************************************************************************)
(* POST /api/v1/config/product-service, and the gateway called after it.   *)
(***************************************************************************)
\* config.endpoint: the one init_db stores, and two others.
EndpointArgs ==
    {"https://api.example.com/products", "https://new-api.example.com/products",
     "https://other.example.com/products"}

\* INSERT OR REPLACE INTO product_service_config (endpoint, api_key, headers):
\* the id is not given and no other column is unique, so the statement
\* finds nothing to replace and adds a row, is_active defaulting to 1.
InsertOrReplaceConfig(endpoint) ==
    Append(product_service_config,
           [endpoint |-> endpoint, api_key |-> "", is_active |-> TRUE])

ConfigureProductService(endpoint) ==
    /\ Len(product_service_config) < MaxConfigs
    /\ product_service_config' = InsertOrReplaceConfig(endpoint)
    \* product_cache.clear()
    /\ product_cache' = [k \in {} |-> EmptyJson]
    /\ resp' = Response("configure", 200, "Product service configured successfully")
    /\ UNCHANGED <<cart_sessions, cart_items, next_item_id, discount_codes,
                       in_flight, ai_vars>>

\* fetch_product_from_external_api called for product pid; resp keeps what
\* it returned and the endpoints it asked.
Fetch(pid) ==
    \E fo \in FetchProduct(pid) :
        /\ product_cache' = fo[2]
        /\ resp' = [op |-> "fetch", status |-> 0, detail |-> "",
                    product_id |-> pid, product_data |-> fo[1], asked |-> fo[3]]
        /\ UNCHANGED <<cart_sessions, cart_items, next_item_id, discount_codes,
                       product_service_config,
                       in_flight, ai_vars>>

NextConfig ==
    \/ \E endpoint \in EndpointArgs : ConfigureProductService(endpoint)
    \/ \E pid \in ProductIds : Fetch(pid)

SpecConfig == Init /\ [][NextConfig]_vars

(***************************************************************************)
(* The gateway and configure calls over the configurations                 *)
(* fetch_product_from_external_api provides for: the one init_db stores,   *)
(* an empty endpoint, and no active row (the last two only a hand on the   *)
(* database brings about).                                                 *)
(***************************************************************************)
FetchConfigs ==
    { InitConfig,
      << [endpoint |-> "", api_key |-> "", is_active |-> TRUE] >>,
      << [endpoint |-> "https://api.example.com/products", api_key |-> "",
          is_active |-> FALSE] >> }

InitFetch ==
    /\ cart_sessions = {}
    /\ cart_items = {}
    /\ next_item_id = 1
    /\ discount_codes = InitDiscountCodes
    /\ product_service_config \in FetchConfigs
    /\ product_cache = [k \in {} |-> EmptyJson]
    /\ resp = Idle
    /\ in_flight = << >>
    /\ ContentServiceIdle

SpecFetch == InitFetch /\ [][NextConfig]_vars

(***************************************************************************)
(* Adds and quantity updates asking for up to one unit more than any       *)
(* stock the product service reports.                                      *)
(***************************************************************************)
StockQuantities == 1 .. (MaxStock + 1)

NextStock ==
    \/ \E s \in ClientSessionIds, p \in ProductIds, q \in StockQuantities :
          AddToCart(s, p, q)
    \/ \E s \in ClientSessionIds, i \in ItemIdArgs, q \in StockQuantities :
          UpdateItemQuantity(s, i, q)
    \/ \E s \in ClientSessionIds, i \in ItemIdArgs : RemoveItem(s, i)

SpecStock == Init /\ [][NextStock]_vars

(***************************************************************************)
(* A cart whose line item was stored when the product service still        *)
(* described the product otherwise: every snapshot fetched from now on     *)
(* differs from the stored one in name, price, vendor name and image.      *)
(***************************************************************************)
CapturedItems ==
    { [id |-> 1, session_id |-> s, product_id |-> p,
       product_name |-> "old name", price |-> PriceOf[p] - 100, quantity |-> 1,
       vendor_id |-> "v0", vendor_name |-> "old vendor",
       image_url |-> "old img"] : s \in ClientSessionIds, p \in ProductIds }

InitCaptured ==
    /\ cart_sessions = {}
    /\ \E it \in CapturedItems : cart_items = {it}
    /\ next_item_id = 2
    /\ discount_codes = InitDiscountCodes
    /\ product_service_config = InitConfig
    /\ product_cache = [k \in {} |-> EmptyJson]
    /\ resp = Idle
    /\ in_flight = << >>
    /\ ContentServiceIdle

SpecCaptured == InitCaptured /\ [][NextStock]_vars

(***************************************************************************)
(* Requests that overlap.  The application runs in one process on one      *)
(* event loop (uvicorn.run(app, ...)), every handler is a coroutine, and a *)
(* coroutine gives way to another one only where it awaits something that  *)
(* is not ready: the GET to the product service.  A request is therefore   *)
(* two steps, the code up to the moment the GET has been sent and the code *)
(* from the response's arrival on, and in_flight holds the requests        *)
(* between their two steps, with the locals they resume with.              *)
(***************************************************************************)
MaxInFlight == 2

\* The endpoint the GET goes to; {} when fetch returns before sending one.
UpstreamAsked ==
    IF ActiveConfig = {} \/ (\E c \in ActiveConfig : c.endpoint = "")
    THEN {}
    ELSE { c.endpoint : c \in ActiveConfig }

\* What the awaited GET ends with: {} for an error, a timeout, a non-2xx
\* status or an unparsable body, else the parsed body.
UpstreamResponses(pid) == {{}} \cup { {b} : b \in UpstreamBodies(pid) }

Suspend(r) == Append(in_flight, r)

Resume(i) ==
    [j \in 1 .. (Len(in_flight) - 1) |->
        IF j < i THEN in_flight[j] ELSE in_flight[j + 1]]

\* `product_cache[cache_key] = product_data` after a response with a body.
CacheAfterResponse(pid, data) ==
    IF data = {} THEN product_cache
    ELSE CachePut(product_cache, pid, CHOOSE b \in data : TRUE)

\* The search for the pair's line item as if it had been made before the
\* product lookup was awaited.
LookupOnReceipt(r) == r.seen

\* The search for the pair's line item, made after the product lookup has
\* returned.
LookupOnResume(r) == FindLineItems(r.session_id, r.product_id)

\* add_to_cart up to the GET it waits for: the session is settled, the cache
\* has no live entry for the product and a configuration with an endpoint
\* is active.  seen is not a local of the handler: it records the pair's
\* line items at this moment, for comparison with what the handler finds
\* when it resumes.
AddBegin(session_id, pid, quantity) ==
    \E so \in ResolveSession(session_id) :
        /\ Len(in_flight) < MaxInFlight
        /\ UpstreamAsked # {}
        /\ cart_sessions' = so[2]
        /\ product_cache' = CacheWithout(pid)
        /\ in_flight' = Suspend([op |-> "add", session_id |-> so[1],
                                product_id |-> pid, quantity |-> quantity,
                                asked |-> UpstreamAsked,
                                configs |-> Len(product_service_config),
                                seen |-> FindLineItems(so[1], pid)])
        /\ UNCHANGED <<cart_items, next_item_id, discount_codes,
                       product_service_config, resp, ai_vars>>

\* add_to_cart from the arrival of the response to its own response.
AddFinish(i) ==
    /\ i \in DOMAIN in_flight
    /\ in_flight[i].op = "add"
    /\ LET r == in_flight[i] IN
       \E data \in UpstreamResponses(r.product_id) :
           /\ product_cache' = CacheAfterResponse(r.product_id, data)
           /\ in_flight' = Resume(i)
           /\ AddAfterFetch(r.session_id, r.product_id, r.quantity, data,
                            LookupOnResume(r))
           /\ UNCHANGED <<cart_sessions, discount_codes, product_service_config, ai_vars>>

NextOverlappingAdds ==
    \/ \E s \in ClientSessionIds, p \in ProductIds, q \in AddQuantities : AddToCart(s, p, q)
    \/ \E s \in ClientSessionIds, p \in ProductIds, q \in AddQuantities : AddBegin(s, p, q)
    \/ \E i \in 1 .. MaxInFlight : AddFinish(i)

SpecOverlappingAdds == Init /\ [][NextOverlappingAdds]_vars

\* fetch_product_from_external_api up to the GET it waits for.
FetchBegin(pid) ==
    /\ Len(in_flight) < MaxInFlight
    /\ UpstreamAsked # {}
    /\ product_cache' = CacheWithout(pid)
    /\ in_flight' = Suspend([op |-> "fetch", session_id |-> NoSession,
                            product_id |-> pid, quantity |-> 0,
                            asked |-> UpstreamAsked,
                            configs |-> Len(product_service_config),
                            seen |-> {}])
    /\ UNCHANGED <<cart_sessions, cart_items, next_item_id, discount_codes,
                   product_service_config, resp, ai_vars>>

\* fetch_product_from_external_api from the arrival of the response on.
FetchFinish(i) ==
    /\ i \in DOMAIN in_flight
    /\ in_flight[i].op = "fetch"
    /\ LET r == in_flight[i] IN
       \E data \in UpstreamResponses(r.product_id) :
           /\ product_cache' = CacheAfterResponse(r.product_id, data)
           /\ in_flight' = Resume(i)
           /\ resp' = [op |-> "fetch", status |-> 0, detail |-> "",
                       product_id |-> r.product_id, product_data |-> data,
                       asked |-> r.asked]
           /\ UNCHANGED <<cart_sessions, cart_items, next_item_id,
                          discount_codes, product_service_config, ai_vars>>

NextOverlappingFetches ==
    \/ \E endpoint \in EndpointArgs : ConfigureProductService(endpoint)
    \/ \E pid \in ProductIds : Fetch(pid)
    \/ \E pid \in ProductIds : FetchBegin(pid)
    \/ \E i \in 1 .. MaxInFlight : FetchFinish(i)

SpecOverlappingFetches == Init /\ [][NextOverlappingFetches]_vars

(***************************************************************************)
(* Content-generation backend (assignment2): the ai_providers and          *)
(* generation_tasks tables, the provider handlers of app/api/providers.py  *)
(* and the generation handlers and task runner of app/api/generation.py.   *)
(* The templates table is taken as it is after startup and left alone.     *)
(***************************************************************************)
\* Most rows of ai_providers.
MaxProviders == 2
\* Most rows of generation_tasks.
MaxTasks == 2
\* Most calls of the task runner.
MaxRuns == 3
\* Longest input_data_list of a batch request.
MaxBatch == 2

ProviderIds == 1 .. MaxProviders
ProviderNames == {"alpha", "beta"}
ProviderTypes == {"openai", "azure_openai"}

\* provider_id of a request: 0 stands for a request without one.
NoProvider == 0
ProviderIdArgs == {NoProvider} \cup ProviderIds

\* Templates stored, and the template ids requests name.
TemplateIds == {1}
TemplateIdArgs == {1, 2}

\* Tables in which no two rows share the primary key id or the name.
ProviderStores ==
    LET Cols == ProviderNames \X ProviderTypes \X BOOLEAN
        Table(D, f) ==
            { [id |-> i, name |-> f[i][1], provider_type |-> f[i][2],
               is_active |-> f[i][3]] : i \in D }
    IN UNION { { Table(D, f) :
                   f \in { g \in [D -> Cols] :
                             \A i, j \in D : g[i][1] = g[j][1] => i = j } } :
               D \in SUBSET ProviderIds }

\* The cart backend as it starts, standing by.
CartServiceIdle ==
    /\ cart_sessions = {}
    /\ cart_items = {}
    /\ next_item_id = 1
    /\ discount_codes = InitDiscountCodes
    /\ product_service_config = InitConfig
    /\ product_cache = [k \in {} |-> EmptyJson]
    /\ in_flight = << >>

InitProviders ==
    /\ CartServiceIdle
    /\ resp = Idle
    /\ ai_providers \in ProviderStores
    /\ generation_tasks = << >>
    /\ runs = << >>
    /\ batches = << >>

\* The fields of the request model ProviderConfigCreate.
ProviderConfigCreateFields ==
    {"name", "provider_type", "api_key", "base_url", "model", "max_tokens",
     "temperature", "timeout"}

\* AttributeError: the handler reads a field the request model does not have.
ReadRaises(fields) == ~(fields \subseteq ProviderConfigCreateFields)

\* db.query(AIProvider).filter(AIProvider.name == name).first()
ProviderByName(name) == { p \in ai_providers : p.name = name }

\* db.query(AIProvider).filter(AIProvider.id == provider_id).first()
ProviderById(provider_id) == { p \in ai_providers : p.id = provider_id }

\* POST /api/v1/ai/providers/
CreateProvider(name, provider_type) ==
    /\ UNCHANGED <<cart_vars, generation_tasks, runs, batches>>
    /\ IF ProviderByName(name) # {}
       THEN /\ resp' = Response("create_provider", 400, "Provider already exists")
            /\ UNCHANGED ai_providers
       ELSE IF ReadRaises(ProviderConfigCreateFields \cup {"is_active"})
       THEN /\ resp' = Response("create_provider", 500, "AttributeError")
            /\ UNCHANGED ai_providers
       ELSE \E id \in ProviderIds :
            /\ ProviderById(id) = {}
            /\ ai_providers' = ai_providers \cup
                   {[id |-> id, name |-> name, provider_type |-> provider_type,
                     is_active |-> TRUE]}
            /\ resp' = Response("create_provider", 201, "")

\* provider_data.dict(exclude_unset=True) of a ProviderConfigUpdate, for the
\* fields name and is_active.
ProviderUpdates ==
    {EmptyJson}
    \cup { [name |-> n] : n \in ProviderNames }
    \cup { [is_active |-> b] : b \in BOOLEAN }
    \cup { [name |-> n, is_active |-> b] : n \in ProviderNames, b \in BOOLEAN }

\* for field, value in update_data.items(): setattr(provider, field, value)
SetAttrs(p, update_data) ==
    [f \in DOMAIN p |-> IF f \in DOMAIN update_data THEN update_data[f] ELSE p[f]]

\* PUT /api/v1/ai/providers/{provider_id}
UpdateProvider(provider_id, update_data) ==
    /\ UNCHANGED <<cart_vars, generation_tasks, runs, batches>>
    /\ IF ProviderById(provider_id) = {}
       THEN /\ resp' = Response("update_provider", 404, "Provider not found")
            /\ UNCHANGED ai_providers
       ELSE /\ ai_providers' =
                 { IF p.id = provider_id THEN SetAttrs(p, update_data) ELSE p :
                     p \in ai_providers }
            /\ resp' = Response("update_provider", 200, "")

\* DELETE /api/v1/ai/providers/{provider_id}
DeleteProvider(provider_id) ==
    /\ UNCHANGED <<cart_vars, generation_tasks, runs, batches>>
    /\ IF ProviderById(provider_id) = {}
       THEN /\ resp' = Response("delete_provider", 404, "Provider not found")
            /\ UNCHANGED ai_providers
       ELSE /\ ai_providers' = ai_providers \ ProviderById(provider_id)
            /\ resp' = Response("delete_provider", 200, "Provider deleted successfully")

NextProviders ==
    \/ \E n \in ProviderNames, t \in ProviderTypes : CreateProvider(n, t)
    \/ \E i \in ProviderIds, u \in ProviderUpdates : UpdateProvider(i, u)
    \/ \E i \in ProviderIds : DeleteProvider(i)

SpecProviders == InitProviders /\ [][NextProviders]_vars

(***************************************************************************)
(* Generation tasks.  A row of generation_tasks is kept with the statuses  *)
(* it has been committed with, oldest first; its status is the last one.   *)
(* A call of _run_generation_task is a coroutine: it runs in one piece up  *)
(* to `await provider_instance.generate_content(...)` and in one piece     *)
(* from the provider's answer on.  runs holds the calls with their         *)
(* position, batches the batch requests with the calls they gather.        *)
(***************************************************************************)
Status(task) == task.committed[Len(task.committed)]

\* GenerationTask(task_id=uuid4(), ..., status="pending"), added and committed.
NewTask(template_id, provider_id) ==
    [template_id |-> template_id, provider_id |-> provider_id,
     committed |-> <<"pending">>]

\* task.status = status; db.commit()
Commit(tasks, t, status) ==
    [tasks EXCEPT ![t].committed = Append(@, status)]

\* Provider rows with the default configuration of the deployment: an
\* OpenAI provider and an Azure OpenAI provider, both active.
GenerationProviders ==
    { [id |-> 1, name |-> "alpha", provider_type |-> "openai", is_active |-> TRUE],
      [id |-> 2, name |-> "beta", provider_type |-> "azure_openai",
       is_active |-> TRUE] }

InitGeneration ==
    /\ CartServiceIdle
    /\ resp = Idle
    /\ ai_providers = GenerationProviders
    /\ generation_tasks = << >>
    /\ runs = << >>
    /\ batches = << >>

\* db.query(AIProvider).filter(AIProvider.is_active == True).first()
FirstActiveProvider ==
    LET rows == { p \in ai_providers : p.is_active }
    IN IF rows = {} THEN {}
       ELSE { CHOOSE p \in rows : \A q \in rows : p.id <= q.id }

\* The provider a generation request goes to: the one it names, else the
\* first active one; {} when there is none.
RequestProvider(provider_id) ==
    IF provider_id # NoProvider THEN ProviderById(provider_id)
    ELSE FirstActiveProvider

\* The answer of a generation handler that ends before it creates a task,
\* {} when it goes on.
Refusal(op, template_id, provider_id) ==
    IF template_id \notin TemplateIds
    THEN { Response(op, 404, "Template not found") }
    ELSE IF RequestProvider(provider_id) = {}
    THEN IF provider_id # NoProvider
         THEN { Response(op, 404, "Provider not found") }
         ELSE { Response(op, 400, "No active provider available") }
    ELSE {}

\* POST /api/v1/ai/generate/ : the task is stored and its run is scheduled
\* with asyncio.create_task; the answer does not wait for it.
GenerateContent(template_id, provider_id) ==
    /\ UNCHANGED <<cart_vars, ai_providers, batches>>
    /\ IF Refusal("generate", template_id, provider_id) # {}
       THEN /\ resp' \in Refusal("generate", template_id, provider_id)
            /\ UNCHANGED <<generation_tasks, runs>>
       ELSE \E p \in RequestProvider(provider_id) :
            /\ Len(generation_tasks) < MaxTasks
            /\ Len(runs) < MaxRuns
            /\ generation_tasks' =
                   Append(generation_tasks, NewTask(template_id, p.id))
            /\ runs' = Append(runs, [task_id |-> Len(generation_tasks) + 1,
                                     pc |-> "scheduled"])
            /\ resp' = Response("generate", 202, "Content generation started")

\* The tasks a batch of n inputs appends, and the calls of the runner for them.
BatchTasks(template_id, provider_id, n) ==
    [i \in 1 .. n |-> NewTask(template_id, provider_id)]

BatchRuns(n) ==
    [i \in 1 .. n |-> [task_id |-> Len(generation_tasks) + i, pc |-> "scheduled"]]

\* POST /api/v1/ai/generate/batch up to `await asyncio.gather(...)`: one task
\* for every input, committed together, and one call of the runner for each
\* of them handed to gather.
GenerateContentBatch(template_id, provider_id, n) ==
    /\ UNCHANGED <<cart_vars, ai_providers>>
    /\ IF Refusal("batch", template_id, provider_id) # {}
       THEN /\ resp' \in Refusal("batch", template_id, provider_id)
            /\ UNCHANGED <<generation_tasks, runs, batches>>
       ELSE \E p \in RequestProvider(provider_id) :
            /\ Len(generation_tasks) + n <= MaxTasks
            /\ Len(runs) + n <= MaxRuns
            /\ generation_tasks' =
                   generation_tasks \o BatchTasks(template_id, p.id, n)
            /\ runs' = runs \o BatchRuns(n)
            /\ batches' = Append(batches,
                   [runs |-> (Len(runs) + 1) .. (Len(runs) + n),
                    state |-> "gathering"])
            /\ UNCHANGED resp

\* A gather that is over as soon as one of its calls is.
GatherAnyDone(b) == \E r \in batches[b].runs : runs[r].pc = "done"

\* asyncio.gather(*calls) is over when every call has returned.
GatherDone(b) == \A r \in batches[b].runs : runs[r].pc = "done"

\* generate_content_batch from the return of gather on.
BatchReturn(b) ==
    /\ b \in DOMAIN batches
    /\ batches[b].state = "gathering"
    /\ GatherDone(b)
    /\ batches' = [batches EXCEPT ![b].state = "returned"]
    /\ resp' = Response("batch", 202, "Batch generation started")
    /\ UNCHANGED <<cart_vars, ai_providers, generation_tasks, runs>>

\* _run_generation_task up to the awaited provider call: the task becomes
\* processing; without its provider or template it becomes failed, and so it
\* does through the except clause when the provider is not of type openai
\* (no ProviderConfig is built and the factory is called with None).
RunStart(r) ==
    /\ r \in DOMAIN runs
    /\ runs[r].pc = "scheduled"
    /\ LET t == runs[r].task_id
           task == generation_tasks[t]
           provider == ProviderById(task.provider_id)
           processing == Commit(generation_tasks, t, "processing")
       IN IF provider = {} \/ task.template_id \notin TemplateIds
             \/ (\E p \in provider : p.provider_type # "openai")
          THEN /\ generation_tasks' = Commit(processing, t, "failed")
               /\ runs' = [runs EXCEPT ![r].pc = "done"]
          ELSE /\ generation_tasks' = processing
               /\ runs' = [runs EXCEPT ![r].pc = "awaiting"]
    /\ UNCHANGED <<cart_vars, ai_providers, batches, resp>>

\* What the task is committed with after the provider has answered:
\* completed for content without error that passes the template's
\* validation, failed otherwise (also through the except clause).
GenerationOutcomes == {"completed", "failed"}

\* _run_generation_task from the provider's answer on.
RunFinish(r) ==
    /\ r \in DOMAIN runs
    /\ runs[r].pc = "awaiting"
    /\ \E status \in GenerationOutcomes :
          generation_tasks' = Commit(generation_tasks, runs[r].task_id, status)
    /\ runs' = [runs EXCEPT ![r].pc = "done"]
    /\ UNCHANGED <<cart_vars, ai_providers, batches, resp>>

NextGeneration ==
    \/ \E t \in TemplateIdArgs, p \in ProviderIdArgs : GenerateContent(t, p)
    \/ \E t \in TemplateIdArgs, p \in ProviderIdArgs, n \in 1 .. MaxBatch :
          GenerateContentBatch(t, p, n)
    \/ \E b \in 1 .. MaxTasks : BatchReturn(b)
    \/ \E r \in 1 .. MaxRuns : RunStart(r)
    \/ \E r \in 1 .. MaxRuns : RunFinish(r)
    \/ \E i \in ProviderIds : DeleteProvider(i)

SpecGeneration == InitGeneration /\ [][NextGeneration]_vars

\* _run_generation_task called for a task id it has been called for before.
RunAgain(t) ==
    /\ t \in DOMAIN generation_tasks
    /\ \E r \in DOMAIN runs : runs[r].task_id = t
    /\ Len(runs) < MaxRuns
    /\ runs' = Append(runs, [task_id |-> t, pc |-> "scheduled"])
    /\ UNCHANGED <<cart_vars, ai_providers, generation_tasks, batches, resp>>

NextRunAgain == NextGeneration \/ \E t \in 1 .. MaxTasks : RunAgain(t)

SpecRunAgain == InitGeneration /\ [][NextRunAgain]_vars

(***************************************************************************)
(* What the handlers are checked against.                                  *)
(***************************************************************************)
\* The session a handler called with session_id = s worked on, read off the
\* step: the one given, else the one get_or_create_session_id left stored.
SessionUsed(s) == IF s = NoSession THEN cart_sessions' ELSE {s}

\* The product_data a handler that fetched product p ended with, read off
\* the step: a body served from or stored in the cache is in it afterwards,
\* and after a failed fetch the product is not cached.
FetchedData(p) ==
    IF p \in DOMAIN product_cache' THEN {product_cache'[p]} ELSE {}

StockCovers(p, q) ==
    Truthy(FetchedData(p)) /\ \A d \in FetchedData(p) : Get(d, "stock", 0) >= q

StockShort(p, q) ==
    Truthy(FetchedData(p)) /\ \E d \in FetchedData(p) : Get(d, "stock", 0) < q

Abs(x) == IF x < 0 THEN 0 - x ELSE x

\* C1: the store never holds two line items with the same session_id and
\* product_id, whatever Add, UpdateQuantity, Remove and Clear requests were
\* served one after the other.
C1_OneLineItemPerPair ==
    \A a, b \in cart_items :
        (a.session_id = b.session_id /\ a.product_id = b.product_id) => a = b

\* An Add for a pair already in the cart has been served while the store
\* holds two line items.
C1_Witness ==
    /\ resp.op = "add" /\ resp.status = 500
    /\ Cardinality(cart_items) >= 2

\* C2: an Add of q >= 1 for a product the session already holds with a
\* quantity >= 1, the stock covering q, succeeds and leaves one line item for
\* the product, its quantity the old one plus q.
C2_ReAddSumsQuantity ==
    [][resp'.op = "add" =>
       \A s \in SessionArgs, p \in ProductIds, q \in AddQuantities :
         (q >= 1 /\ StockCovers(p, q) /\ AddToCart(s, p, q)) =>
            \A sid \in SessionUsed(s) : \A e \in FindLineItems(sid, p) :
              e.quantity >= 1 =>
                /\ resp'.status = 200
                /\ { it \in cart_items' : it.session_id = sid /\ it.product_id = p }
                       = { [e EXCEPT !.quantity = e.quantity + q] }]_vars

\* C3: an Add whose fetch returns nothing is answered 404 "Product not
\* found", an Add whose snapshot has stock < quantity is answered 400
\* "Insufficient stock", and neither changes any line item.  (Read: when the
\* fetch for p ended so, the step has that answer and leaves the items, or
\* it is no Add of p.)
C3_AddFailsCleanly ==
    [][resp'.op = "add" =>
       \A s \in SessionArgs, p \in ProductIds, q \in AddQuantities :
         /\ ~Truthy(FetchedData(p)) =>
               \/ /\ resp' = Response("add", 404, "Product not found")
                  /\ cart_items' = cart_items
               \/ ~AddToCart(s, p, q)
         /\ StockShort(p, q) =>
               \/ /\ resp' = Response("add", 400, "Insufficient stock")
                  /\ cart_items' = cart_items
               \/ ~AddToCart(s, p, q)]_vars

\* An Add has been refused for lack of stock while the store holds items.
C3_Witness ==
    /\ resp = Response("add", 400, "Insufficient stock")
    /\ cart_items # {}

\* C7: an UpdateQuantity with quantity < 1 on a line item of the session is
\* answered 400 "Quantity must be at least 1" and changes no line item.
C7_InvalidQuantityRejected ==
    [][resp'.op = "update" =>
       \A s \in SessionArgs, i \in ItemIdArgs, q \in Quantities :
         (/\ q < 1
          /\ \E sid \in SessionUsed(s), it \in cart_items :
                it.id = i /\ it.session_id = sid) =>
            \/ /\ resp' = Response("update", 400, "Quantity must be at least 1")
               /\ cart_items' = cart_items
            \/ ~UpdateItemQuantity(s, i, q)]_vars

\* An UpdateQuantity has been refused for its quantity, and the item it named
\* is one of its session: no request has come without a session id so far
\* (cart_sessions is empty), so the session was sA, and sA holds a line item
\* under every id a request can name.
C7_Witness ==
    /\ resp = Response("update", 400, "Quantity must be at least 1")
    /\ cart_sessions = {}
    /\ \A i \in ItemIdArgs :
          \E it \in cart_items : it.id = i /\ it.session_id \in ClientSessionIds

\* C8 as claimed: an UpdateQuantity naming an item id the session does not
\* hold is answered 404 "Item not found" for every quantity.
C8_MissingItemAlwaysNotFound ==
    [][resp'.op = "update" =>
       \A s \in SessionArgs, i \in ItemIdArgs, q \in Quantities :
         (/\ \A sid \in SessionUsed(s), it \in cart_items :
                ~(it.id = i /\ it.session_id = sid)
          /\ UpdateItemQuantity(s, i, q)) =>
            resp' = Response("update", 404, "Item not found")]_vars

\* C8 as amended: an UpdateQuantity naming an item id the session does not
\* hold is answered 404 "Item not found" for every quantity >= 1 and 400
\* "Quantity must be at least 1" for every quantity < 1; no line item changes.
C8_MissingItemNotFoundFromOne ==
    [][resp'.op = "update" =>
       \A s \in SessionArgs, i \in ItemIdArgs, q \in Quantities :
         (\A sid \in SessionUsed(s), it \in cart_items :
                ~(it.id = i /\ it.session_id = sid)) =>
            \/ /\ resp' = IF q < 1
                          THEN Response("update", 400, "Quantity must be at least 1")
                          ELSE Response("update", 404, "Item not found")
               /\ cart_items' = cart_items
            \/ ~UpdateItemQuantity(s, i, q)]_vars

\* An UpdateQuantity has been answered "Item not found" while the store
\* holds line items.
C8_Witness ==
    /\ resp = Response("update", 404, "Item not found")
    /\ cart_items # {}

\* C9: an UpdateQuantity with quantity >= 1 on a line item of the session is
\* answered 400 "Insufficient stock", the quantity unchanged, when the
\* snapshot has stock < quantity; otherwise (stock >= quantity, or no
\* snapshot) it succeeds and the item's quantity becomes the one asked for.
C9_UpdateSetsQuantity ==
    [][resp'.op = "update" =>
       \A s \in SessionArgs, i \in ItemIdArgs, q \in Quantities :
         (q >= 1 /\ UpdateItemQuantity(s, i, q)) =>
            \A sid \in SessionUsed(s) :
            \A e \in { it \in cart_items : it.id = i /\ it.session_id = sid } :
                IF StockShort(e.product_id, q)
                THEN /\ resp' = Response("update", 400, "Insufficient stock")
                     /\ cart_items' = cart_items
                ELSE /\ resp'.status = 200
                     /\ cart_items' =
                          (cart_items \ {e}) \cup {[e EXCEPT !.quantity = q]}]_vars

\* C10: a Remove naming an item id the session does not hold (no such item,
\* or another session's) is answered 404 "Item not found" and deletes
\* nothing; otherwise it deletes that line item and no other.
C10_RemoveExactlyThatItem ==
    [][resp'.op = "remove" =>
       \A s \in SessionArgs, i \in ItemIdArgs :
         \A sid \in SessionUsed(s) :
            LET own == { it \in cart_items : it.id = i /\ it.session_id = sid }
            IN \/ IF own = {}
                  THEN /\ resp' = Response("remove", 404, "Item not found")
                       /\ cart_items' = cart_items
                  ELSE /\ resp' = Response("remove", 200, "Item removed")
                       /\ cart_items' = cart_items \ own
               \/ ~RemoveItem(s, i)]_vars

\* A Remove has deleted one line item and another is still stored.
C10_Witness ==
    /\ resp = Response("remove", 200, "Item removed")
    /\ cart_items # {}

\* The line items of the sessions other than sid.
OtherSessionsItems(items, sid) == { it \in items : it.session_id # sid }

\* The step is an Add, UpdateQuantity, Remove or Clear called with
\* session_id = s.
CartWrite(s) ==
    \/ \E p \in ProductIds, q \in AddQuantities : AddToCart(s, p, q)
    \/ \E i \in ItemIdArgs, q \in Quantities : UpdateItemQuantity(s, i, q)
    \/ \E i \in ItemIdArgs : RemoveItem(s, i)
    \/ ClearCart(s)

\* C11: an Add, UpdateQuantity, Remove or Clear served for one session leaves
\* the line items of every other session as they were, and the items a
\* GetCart returns all belong to the session it answers for.  (Read: the
\* other sessions' items are unchanged, or the step is no such request of
\* session s.)
C11_SessionIsolation ==
    [][/\ resp'.op \in {"add", "update", "remove", "clear"} =>
            \A s \in SessionArgs : \A sid \in SessionUsed(s) :
                \/ OtherSessionsItems(cart_items', sid)
                      = OtherSessionsItems(cart_items, sid)
                \/ ~CartWrite(s)
       /\ resp'.op = "get" =>
            /\ \A i \in DOMAIN resp'.items :
                  resp'.items[i].session_id = resp'.session_id
            /\ Len(resp'.items)
                  = Cardinality({ it \in cart_items' :
                                    it.session_id = resp'.session_id })]_vars

\* An Add has put a product into one session's cart while another session
\* holds the same product.
C11_Witness ==
    /\ resp.op = "add" /\ resp.status = 200
    /\ \E a, b \in cart_items :
          /\ a.session_id = resp.session_id
          /\ b.session_id # resp.session_id
          /\ a.product_id = b.product_id

C13_AddsGetDifferentSessions ==
    [][(/\ resp.op = "add" /\ resp.status = 200
        /\ resp'.op = "add" /\ resp'.status = 200
        /\ resp.session_id \in Tokens
        /\ \E p \in ProductIds, q \in AddQuantities : AddToCart(NoSession, p, q)) =>
          /\ resp'.session_id # resp.session_id
          /\ Cardinality({ it \in cart_items' :
                             it.session_id = resp'.session_id }) = 1]_vars

\* C14: an Add with a quantity below 1 whose fetch returned a snapshot is
\* answered 422 and changes no line item.
C14_AddRejectsInvalidQuantity ==
    [][resp'.op = "add" =>
       \A s \in SessionArgs, p \in ProductIds, q \in InvalidAddQuantities :
         (Truthy(FetchedData(p)) /\ AddToCart(s, p, q)) =>
            /\ resp'.status = 422
            /\ cart_items' = cart_items]_vars

(***************************************************************************)
(* What calculate_totals is checked against, under SpecTotals.  t is the   *)
(* dictionary it returned for session resp.session_id and code resp.code.  *)
(***************************************************************************)
TotalsItems == { it \in cart_items : it.session_id = resp.session_id }

TotalsActive == { r \in discount_codes : r.code = resp.code /\ r.is_active }

\* subtotal * percentage / 100 for the code given, in hundredths of a cent.
TotalsExactDiscount100 ==
    IF TotalsActive = {} THEN 0
    ELSE resp.totals.subtotal * (CHOOSE r \in TotalsActive : TRUE).percentage

\* C4: shipping is 100 for every vendor whose line items sum to less than
\* 800 (a vendor at exactly 800 pays nothing), each vendor on its own.
C4_ShippingPerVendor ==
    resp.op = "totals" =>
        resp.totals.shipping =
            ShippingFee * Cardinality(
                { v \in { it.vendor_id : it \in TotalsItems } :
                    SumItems({ it \in TotalsItems : it.vendor_id = v })
                        < FreeShippingThreshold })

StoredActive(code) == { r \in discount_codes : r.code = code /\ r.is_active }

\* The code in capitals (the stored codes are all capitals).
CodeUpper(code) == IF code = "save10" THEN "SAVE10" ELSE code

\* The step is an ApplyDiscount or RemoveDiscount called with session_id = s.
DiscountRequest(s) ==
    \/ \E c \in DiscountCodeArgs : ApplyDiscountCode(s, c)
    \/ RemoveDiscountCode(s)

\* C15: an ApplyDiscount with a code that is not stored, or stored inactive,
\* is answered 404 "Invalid discount code"; with a stored active code it is
\* answered 200 with the code and, as discount_amount, the discount
\* calculate_totals gives for the session's line items and that code.
C15_ApplyDiscountConfirms ==
    [][resp'.op = "apply_discount" =>
       \A s \in SessionArgs, c \in DiscountCodeArgs :
         \/ IF StoredActive(c) = {}
            THEN resp' = Response("apply_discount", 404, "Invalid discount code")
            ELSE /\ resp'.status = 200
                 /\ resp'.code = c
                 /\ \E sid \in SessionUsed(s) :
                      resp'.discount_amount \in
                        { t.discount : t \in CalculateTotals(sid, c) }
         \/ ~ApplyDiscountCode(s, c)]_vars

\* An ApplyDiscount has confirmed a discount above 0 while some stored code
\* is inactive.
C15_Witness ==
    /\ resp.op = "apply_discount" /\ resp.status = 200
    /\ resp.discount_amount > 0
    /\ \E r \in discount_codes : ~r.is_active

\* C16 as claimed: no ApplyDiscount and no RemoveDiscount changes a line
\* item, a session or a discount code, and a GetCart served right after a
\* successful ApplyDiscount reports discount 0.
C16_DiscountStateless ==
    [][/\ resp'.op \in {"apply_discount", "remove_discount"} =>
            /\ cart_items' = cart_items
            /\ cart_sessions' = cart_sessions
            /\ discount_codes' = discount_codes
       /\ (resp.op = "apply_discount" /\ resp.status = 200 /\ resp'.op = "get") =>
            resp'.totals.discount = 0]_vars

\* C16 as amended: no ApplyDiscount and no RemoveDiscount changes a line
\* item or a discount code; called with a session_id they change no session
\* either, called without one they store a new session when none is stored
\* and change none otherwise; a GetCart served right after a successful
\* ApplyDiscount reports discount 0.
C16_DiscountStatelessButSession ==
    [][/\ resp'.op \in {"apply_discount", "remove_discount"} =>
            /\ cart_items' = cart_items
            /\ discount_codes' = discount_codes
            /\ \A s \in SessionArgs :
                  \/ IF s = NoSession /\ cart_sessions = {}
                     THEN \E t \in Tokens : cart_sessions' = {t}
                     ELSE cart_sessions' = cart_sessions
                  \/ ~DiscountRequest(s)
       /\ (resp.op = "apply_discount" /\ resp.status = 200 /\ resp'.op = "get") =>
            resp'.totals.discount = 0]_vars

\* An ApplyDiscount has been confirmed in a store that holds line items and a
\* session a request without session_id has stored.
C16_Witness ==
    /\ resp.op = "apply_discount" /\ resp.status = 200
    /\ cart_sessions # {}
    /\ cart_items # {}

\* C17: a GetCart called with a stored active code returns the totals
\* calculate_totals gives for the session's line items and that code.
C17_GetCartAppliesCode ==
    [][resp'.op = "get" =>
       \A s \in SessionArgs, c \in DiscountCodeArgs :
         (StoredActive(c) # {} /\ GetCartWithCode(s, c)) =>
            \E sid \in SessionUsed(s) :
                resp'.totals \in CalculateTotals(sid, c)]_vars

\* C18: an ApplyDiscount whose code, put in capitals, is a stored active code
\* is answered as with the stored code itself: 200, with the discount
\* calculate_totals gives for the stored code.
C18_CodeCaseInsensitive ==
    [][resp'.op = "apply_discount" =>
       \A s \in SessionArgs, c \in DiscountCodeArgs :
         (StoredActive(CodeUpper(c)) # {} /\ ApplyDiscountCode(s, c)) =>
            /\ resp'.status = 200
            /\ \E sid \in SessionUsed(s) :
                  resp'.discount_amount \in
                    { t.discount : t \in CalculateTotals(sid, CodeUpper(c)) }]_vars

(***************************************************************************)
(* What the configuration is checked against, under SpecConfig.            *)
(***************************************************************************)
\* The row the most recent configure call wrote.
LastConfigured == product_service_config[Len(product_service_config)]

\* C19: once a configure call has been served, product_service_config holds
\* exactly one active row, and the row the gateway reads is the one the most
\* recent configure call wrote.
C19_SingleActiveConfig ==
    resp.op = "configure" =>
        /\ Cardinality({ i \in DOMAIN product_service_config :
                           product_service_config[i].is_active }) = 1
        /\ ActiveConfig = {LastConfigured}

\* C20: right after a configure call with an endpoint other than the one in
\* use, a fetch for any product that was cached before the call serves no
\* cached snapshot: whatever way it ends, it has asked the new endpoint.
C20_RefetchFromNewEndpoint ==
    [][(/\ resp'.op = "configure"
        /\ Len(product_service_config') > Len(product_service_config)
        /\ \A c \in ActiveConfig : LastConfigured'.endpoint # c.endpoint) =>
          \A pid \in DOMAIN product_cache : \A fo \in FetchProduct(pid)' :
              fo[3] = {LastConfigured'.endpoint}]_vars

(***************************************************************************)
(* What the gateway is checked against, under SpecFetch.                   *)
(***************************************************************************)
\* C21: a fetch that ends without data (the request failed, or there is no
\* usable configuration) returns None, leaves every other cache entry as it
\* was and none for its product, so that the next fetch for the product
\* serves nothing cached: it asks the configured endpoint again, if any.
C21_FailedFetchLeavesCache ==
    [][(resp'.op = "fetch" /\ resp'.product_data = {}) =>
          /\ resp'.product_id \notin DOMAIN product_cache'
          /\ \A k \in DOMAIN product_cache' :
                k \in DOMAIN product_cache /\ product_cache'[k] = product_cache[k]
          /\ \A k \in (DOMAIN product_cache) \ {resp'.product_id} :
                k \in DOMAIN product_cache'
          /\ \A pid \in ProductIds : pid = resp'.product_id =>
                \A fo \in FetchProduct(pid)' :
                    fo[3] = { c.endpoint : c \in ActiveConfig' } \ {""}]_vars

\* A fetch has failed after asking the endpoint while another product is
\* cached.
C21_Witness ==
    /\ resp.op = "fetch"
    /\ resp.product_data = {}
    /\ resp.asked # {}
    /\ product_cache # [k \in {} |-> EmptyJson]

C27_StaleResponseNotCached ==
    [][\A i \in DOMAIN in_flight :
          (/\ FetchFinish(i)
           /\ in_flight[i].configs < Len(product_service_config)
           /\ LastConfigured.endpoint \notin in_flight[i].asked)
          => product_cache' = product_cache]_vars

\* C25: line items with the same vendor_id form one group whatever their
\* vendor_name is, so the shipping returned holds at most one fee for every
\* vendor_id in the session's cart.
C25_OneDecisionPerVendorId ==
    resp.op = "totals" =>
        resp.totals.shipping <=
            ShippingFee * Cardinality({ it.vendor_id : it \in TotalsItems })

\* The products whose every snapshot reports the same stock.
ConstantStock == { p \in ProductIds : Cardinality(StocksOf[p]) = 1 }

WithoutQuantity(rows) == { [r EXCEPT !.quantity = 0] : r \in rows }

\* C28: an Add for a product the session's cart already holds adds no line
\* item and changes no stored field other than quantity: name, price,
\* vendor and image stay as stored, whatever the snapshot just fetched says.
C28_ReAddKeepsSnapshot ==
    [][resp'.op = "add" =>
       \A s \in ClientSessionIds, p \in ProductIds, q \in StockQuantities :
         (/\ AddToCart(s, p, q)
          /\ \E it \in cart_items : it.session_id = s /\ it.product_id = p) =>
            WithoutQuantity(cart_items') = WithoutQuantity(cart_items)]_vars

\* An Add has got as far as the write for a product the cart holds with a
\* name, price, vendor and image that no snapshot of the product carries.
C28_Witness ==
    /\ resp.op = "add" /\ resp.status \in {200, 500}
    /\ \E it \in cart_items :
          /\ it.product_name = "old name"
          /\ \A d \in Snapshots(it.product_id) :
                /\ d.name # it.product_name /\ d.price # it.price
                /\ d.vendor_id # it.vendor_id /\ d.vendor_name # it.vendor_name
                /\ d.image_url # it.image_url
    /\ Cardinality(cart_items) = 1

BatchTaskIds(b) == { runs[r].task_id : r \in batches[b].runs }

\* C23: when a batch call has returned, every task it created is completed
\* or failed.
C23_BatchReturnsAfterAllTasks ==
    \A b \in DOMAIN batches :
        batches[b].state = "returned" =>
            \A t \in BatchTaskIds(b) :
                Status(generation_tasks[t]) \in {"completed", "failed"}

\* A batch of more than one task has returned, with one task completed after
\* another one had failed.
C23_Witness ==
    \E b \in DOMAIN batches :
        /\ batches[b].state = "returned"
        /\ \E t, u \in BatchTaskIds(b) :
              /\ Status(generation_tasks[t]) = "completed"
              /\ Status(generation_tasks[u]) = "failed"

\* C24: of a batch with more than one task, fewer tasks than the batch has
\* are waiting for the provider at any one time.
C24_InFlightBelowBatchSize ==
    \A b \in DOMAIN batches :
        Cardinality(batches[b].runs) > 1 =>
            Cardinality({ r \in batches[b].runs : runs[r].pc = "awaiting" })
                < Cardinality(batches[b].runs)

====
